---- MODULE Spec2Model ----
(***************************************************************************)
(* Model of the ssl_exporter integration's collector (Exporter.Collect)    *)
(* of jamesalbert/agent.  One Exporter, its static tables (labelOrder,     *)
(* descs), its two collector-level gauges, its mutex, and the per-target   *)
(* loop of Collect.  The probing strategies are black boxes: a prober      *)
(* invocation returns an error or not and leaves a set of raw metrics in   *)
(* the registry it was handed.                                             *)
(***************************************************************************)
EXTENDS Integers, Sequences, FiniteSets, TLC

(***************************************************************************)
(* Bounds of the model.                                                    *)
(***************************************************************************)
\* longest list of configured targets (Options.SSLTargets)
MaxTargets == 2
\* number of Collect calls made in one behaviour
MaxScrapes == 2
\* most labels on a raw metric whose remapping is examined on its own
MaxLabels == 7

\* the goroutines that call Collect on the one Exporter
Callers == {"c1", "c2"}

(***************************************************************************)
(* Static tables                                                           *)
(***************************************************************************)
\* var namespace = "ssl"
namespace == "ssl"

\* var labelOrder = map[string]int{...}
labelOrder ==
    ("prober" :> 0) @@ ("version" :> 0) @@ ("chain_no" :> 0) @@ ("file" :> 0) @@
    ("namespace" :> 0) @@ ("kubeconfig" :> 0) @@
    ("secret" :> 1) @@ ("name" :> 1) @@
    ("key" :> 2) @@ ("type" :> 2) @@
    ("serial_no" :> 3) @@ ("issuer_cn" :> 4) @@ ("cn" :> 5) @@
    ("dnsnames" :> 6) @@ ("ips" :> 7) @@ ("emails" :> 8) @@ ("ou" :> 9)

\* labelOrder[name]: a Go map read of an absent key yields the zero value
LabelRank(name) == IF name \in DOMAIN labelOrder THEN labelOrder[name] ELSE 0

\* prometheus.BuildFQName(namespace, subsystem, name)
BuildFQName(ns, subsystem, name) ==
    IF name = "" THEN ""
    ELSE IF ns # "" /\ subsystem # "" THEN ns \o "_" \o subsystem \o "_" \o name
    ELSE IF ns # "" THEN ns \o "_" \o name
    ELSE IF subsystem # "" THEN subsystem \o "_" \o name
    ELSE name

\* prometheus.NewDesc(fqName, help, variableLabels, nil); nil labels are <<>>
NewDesc(fqName, variableLabels) == [fqName |-> fqName, variableLabels |-> variableLabels]

CertLabels == <<"serial_no", "issuer_cn", "cn", "dnsnames", "ips", "emails", "ou">>

\* var descs = map[string]*prometheus.Desc{...}
descs ==
    ("ssl_exporter_probe_success" :>
        NewDesc(BuildFQName(namespace, "", "probe_success"), <<>>)) @@
    ("ssl_exporter_prober" :>
        NewDesc(BuildFQName(namespace, "", "prober"), <<"prober">>)) @@
    ("ssl_tls_version_info" :>
        NewDesc(BuildFQName(namespace, "", "tls_version_info"), <<"version">>)) @@
    ("ssl_cert_not_after" :>
        NewDesc(BuildFQName(namespace, "", "cert_not_after"), CertLabels)) @@
    ("ssl_cert_not_before" :>
        NewDesc(BuildFQName(namespace, "", "cert_not_before"), CertLabels)) @@
    ("ssl_verified_cert_not_after" :>
        NewDesc(BuildFQName(namespace, "", "verified_cert_not_after"),
                <<"chain_no">> \o CertLabels)) @@
    ("ssl_verified_cert_not_before" :>
        NewDesc(BuildFQName(namespace, "", "verified_cert_not_before"), <<>>)) @@
    ("ssl_ocsp_response_stapled" :>
        NewDesc(BuildFQName(namespace, "", "ocsp_response_stapled"), <<>>)) @@
    ("ssl_ocsp_response_status" :>
        NewDesc(BuildFQName(namespace, "", "ocsp_response_status"), <<>>)) @@
    ("ssl_ocsp_response_produced_at" :>
        NewDesc(BuildFQName(namespace, "", "ocsp_response_produced_at"), <<>>)) @@
    ("ssl_ocsp_response_this_update" :>
        NewDesc(BuildFQName(namespace, "", "ocsp_response_this_update"), <<>>)) @@
    ("ssl_ocsp_response_next_update" :>
        NewDesc(BuildFQName(namespace, "", "ocsp_response_next_update"), <<>>)) @@
    ("ssl_ocsp_response_revoked_at" :>
        NewDesc(BuildFQName(namespace, "", "ocsp_response_revoked_at"), <<>>)) @@
    ("ssl_file_cert_not_after" :>
        NewDesc(BuildFQName(namespace, "", "file_cert_not_after"),
                <<"file">> \o CertLabels)) @@
    ("ssl_file_cert_not_before" :>
        NewDesc(BuildFQName(namespace, "", "file_cert_not_before"),
                <<"file">> \o CertLabels)) @@
    ("ssl_kubernetes_cert_not_after" :>
        NewDesc(BuildFQName(namespace, "", "kubernetes_cert_not_after"),
                <<"namespace", "secret", "key">> \o CertLabels)) @@
    ("ssl_kubernetes_cert_not_before" :>
        NewDesc(BuildFQName(namespace, "", "kubernetes_cert_not_before"),
                <<"namespace", "secret", "key">> \o CertLabels)) @@
    ("ssl_kubeconfig_cert_not_after" :>
        NewDesc(BuildFQName(namespace, "kubeconfig", "cert_not_after"),
                <<"kubeconfig", "name", "type">> \o CertLabels)) @@
    ("ssl_kubeconfig_cert_not_before" :>
        NewDesc(BuildFQName(namespace, "kubeconfig", "cert_not_before"),
                <<"kubeconfig", "name", "type">> \o CertLabels))

(***************************************************************************)
(* sort.Slice(m.Label, less) with less(i, j) = rank(i) < rank(j)           *)
(***************************************************************************)
\* a mutation of Less: the comparison of line 245 the other way round
Less_Reversed(a, b) == LabelRank(a.name) > LabelRank(b.name)

\* the comparison function handed to sort.Slice
Less(a, b) == LabelRank(a.name) < LabelRank(b.name)

RECURSIVE InsertLabel(_, _)
\* one outer iteration of insertion sort: x sinks left while Less(x, left neighbour)
InsertLabel(s, x) ==
    IF s = <<>> THEN <<x>>
    ELSE IF Less(x, s[Len(s)])
         THEN Append(InsertLabel(SubSeq(s, 1, Len(s) - 1), x), s[Len(s)])
         ELSE Append(s, x)

RECURSIVE InsertionSortFrom(_, _, _)
InsertionSortFrom(acc, s, i) ==
    IF i > Len(s) THEN acc ELSE InsertionSortFrom(InsertLabel(acc, s[i]), s, i + 1)

\* insertionSort_func: what sort.Slice runs on a slice of at most 12 elements
InsertionSort(s) == InsertionSortFrom(<<>>, s, 1)

\* data.Swap(i, j)
SwapAt(s, i, j) == [s EXCEPT ![i] = s[j], ![j] = s[i]]

RECURSIVE ShellPassFrom(_, _)
ShellPassFrom(s, i) ==
    IF i > Len(s) THEN s
    ELSE ShellPassFrom(IF Less(s[i], s[i - 6]) THEN SwapAt(s, i, i - 6) ELSE s, i + 1)

\* the gap-6 pass that quickSort_func (Go up to 1.18, the toolchain the
\* repository's pipeline installs) runs before insertionSort_func on a slice
\* of 2..12 elements
ShellPass(s) == ShellPassFrom(s, 7)

\* sort.Slice is documented as not stable.  On slices of at most 12 elements
\* the result is that of insertionSort_func alone (pdqsort_func, Go 1.19 on)
\* or of the gap-6 pass followed by insertionSort_func (quickSort_func, Go
\* 1.18 and before): the outcome depends on the toolchain of the build.
SortSlice(s) == {InsertionSort(s), InsertionSort(ShellPass(s))}

\* labelValues := []string{}; for _, l := range m.Label { append(l.Value) }
LabelValuesOf(labels) == [i \in 1..Len(labels) |-> labels[i].value]

\* prometheus.NewConstMetric(desc, GaugeValue, value, labelValues...): an
\* error ("inconsistent label cardinality") unless one value per variable label
NewConstMetricOk(desc, labelValues) == Len(labelValues) = Len(desc.variableLabels)

NewConstMetric(desc, value, labelValues) ==
    [desc |-> desc, value |-> value, labelValues |-> labelValues]

(***************************************************************************)
(* Configuration inputs                                                    *)
(***************************************************************************)
\* SSLConfig.Modules: module name -> module (its prober kind)
Modules ==
    ("web" :> [Prober |-> "https"]) @@
    ("raw" :> [Prober |-> "tcp"]) @@
    ("odd" :> [Prober |-> "ftp"])

\* prober.Probers: the prober kinds that have a prober function
Probers == {"https", "tcp"}

\* the module names a target may request: unset, three configured ones, and
\* one that is not configured
ModuleNames == {"", "web", "raw", "odd", "gone"}

\* SSLConfig.DefaultModule: unset or a configured module
DefaultModules == {"", "web"}

\* Options.Namespace
Namespaces == {"ssl_exporter", "ssl"}

\* SSLTarget.Target of the i-th configured target
Addresses == <<"a:443", "b:443", "c:443", "d:443">>

\* Options.SSLTargets: every list of at most MaxTargets targets
SSLTarget(i, moduleName) == [Target |-> Addresses[i], Module |-> moduleName]

TargetLists ==
    UNION { { [i \in 1..n |-> SSLTarget(i, m[i])] : m \in [1..n -> ModuleNames] } :
            n \in 0..MaxTargets }

(***************************************************************************)
(* The probers (black boxes): what one invocation leaves behind            *)
(***************************************************************************)
Label(name, value) == [name |-> name, value |-> value]

\* a raw metric of a gathered family: *mf.Name, m.Label, *m.Gauge.Value
RawMetric(name, labels, value) == [name |-> name, labels |-> labels, value |-> value]

\* the label pairs of a gathered metric, in the order Gather lists them
\* (by label name); every value names the target it was read from
LabelsFor(addr, names) == [i \in 1..Len(names) |-> Label(names[i], addr \o "/" \o names[i])]

CertRawLabels == <<"cn", "dnsnames", "emails", "ips", "issuer_cn", "ou", "serial_no">>

Scenarios == {"none", "cert", "unexpected", "verified", "gatherfail"}

\* the outcomes of one prober invocation: the returned error, and what the
\* prober registered in the registry it was handed.  A prober that returns an
\* error registered nothing or the certificate metrics it had got to; one that
\* returns no error registered something.
Outcomes ==
    { o \in [err : BOOLEAN, scenario : Scenarios] :
        IF o.err THEN o.scenario \in {"none", "cert"} ELSE o.scenario # "none" }

\* the raw metrics a prober registered and set for the target at addr
Registered(addr, scenario) ==
    CASE scenario = "cert" ->
           << RawMetric("ssl_cert_not_after", LabelsFor(addr, CertRawLabels), 20),
              RawMetric("ssl_tls_version_info", LabelsFor(addr, <<"version">>), 1) >>
      [] scenario = "unexpected" ->
           << RawMetric("ssl_cert_not_after", LabelsFor(addr, CertRawLabels), 20),
              RawMetric("ssl_unexpected_metric", LabelsFor(addr, <<"cn">>), 1),
              RawMetric("ssl_verified_cert_not_after",
                        LabelsFor(addr, <<"chain_no">> \o CertRawLabels), 20) >>
      [] scenario = "verified" ->
           << RawMetric("ssl_ocsp_response_status", LabelsFor(addr, <<"cn">>), 0),
              RawMetric("ssl_verified_cert_not_after",
                        LabelsFor(addr, <<"chain_no">> \o CertRawLabels), 20),
              RawMetric("ssl_verified_cert_not_before",
                        LabelsFor(addr, <<"chain_no">> \o CertRawLabels), 10) >>
      [] OTHER -> << >>

(***************************************************************************)
(* pkg/usagestats/reporter.go.  Its arithmetic is on int64 nanoseconds and *)
(* float64, on numbers far beyond 2^31: a natural number is kept as the    *)
(* sequence of its digits to the base 2^15, least significant first and    *)
(* without leading zeros (0 is the empty sequence), and an integer as a    *)
(* sign and a magnitude.                                                   *)
(***************************************************************************)
Base == 2^15

RECURSIVE Limbs(_)
\* the natural number n in digits
Limbs(n) == IF n = 0 THEN <<>> ELSE <<n % Base>> \o Limbs(n \div Base)

RECURSIVE Trim(_)
\* a without leading zeros
Trim(a) ==
    IF a = <<>> THEN <<>>
    ELSE IF a[Len(a)] = 0 THEN Trim(SubSeq(a, 1, Len(a) - 1)) ELSE a

\* the i-th digit of a, 0 past its end
Digit(a, i) == IF i <= Len(a) THEN a[i] ELSE 0

RECURSIVE AddFrom(_, _, _, _)
AddFrom(a, b, i, carry) ==
    IF i > Len(a) /\ i > Len(b) THEN (IF carry = 0 THEN <<>> ELSE <<carry>>)
    ELSE <<(Digit(a, i) + Digit(b, i) + carry) % Base>>
            \o AddFrom(a, b, i + 1, (Digit(a, i) + Digit(b, i) + carry) \div Base)

LimbsAdd(a, b) == AddFrom(a, b, 1, 0)

RECURSIVE SubFrom(_, _, _, _)
SubFrom(a, b, i, borrow) ==
    IF i > Len(a) THEN <<>>
    ELSE <<(a[i] - Digit(b, i) - borrow) % Base>>
            \o SubFrom(a, b, i + 1, IF a[i] - Digit(b, i) - borrow < 0 THEN 1 ELSE 0)

\* a - b, for a >= b
LimbsSub(a, b) == Trim(SubFrom(a, b, 1, 0))

RECURSIVE LessFrom(_, _, _)
\* a < b for a and b of the same length, compared from digit i down
LessFrom(a, b, i) ==
    IF i = 0 THEN FALSE
    ELSE IF a[i] # b[i] THEN a[i] < b[i] ELSE LessFrom(a, b, i - 1)

LimbsLess(a, b) ==
    IF Len(a) # Len(b) THEN Len(a) < Len(b) ELSE LessFrom(a, b, Len(a))

RECURSIVE MulSmallFrom(_, _, _, _)
MulSmallFrom(a, k, i, carry) ==
    IF i > Len(a) THEN (IF carry = 0 THEN <<>> ELSE <<carry>>)
    ELSE <<(a[i] * k + carry) % Base>>
            \o MulSmallFrom(a, k, i + 1, (a[i] * k + carry) \div Base)

\* a * k, for 0 <= k < Base
MulSmall(a, k) == IF k = 0 THEN <<>> ELSE MulSmallFrom(a, k, 1, 0)

\* a * Base^n
ShiftLimbs(a, n) == IF a = <<>> THEN <<>> ELSE [i \in 1..n |-> 0] \o a

RECURSIVE MulFrom(_, _, _)
MulFrom(a, b, i) ==
    IF i > Len(a) THEN <<>>
    ELSE LimbsAdd(MulSmall(b, a[i]), ShiftLimbs(MulFrom(a, b, i + 1), 1))

LimbsMul(a, b) == MulFrom(a, b, 1)

RECURSIVE DivSmallFrom(_, _, _)
\* quotient and remainder of the digits i.. of a by k
DivSmallFrom(a, k, i) ==
    IF i > Len(a) THEN [q |-> <<>>, r |-> 0]
    ELSE LET h == DivSmallFrom(a, k, i + 1)
         IN  [q |-> Trim(<<(h.r * Base + a[i]) \div k>> \o h.q),
              r |-> (h.r * Base + a[i]) % k]

\* quotient and remainder of a by k, for 0 < k <= Base
DivSmall(a, k) == DivSmallFrom(a, k, 1)

\* a * 2^n
ShiftLeft(a, n) == MulSmall(ShiftLimbs(a, n \div 15), 2^(n % 15))

\* floor(a / 2^n)
ShiftRight(a, n) ==
    IF n \div 15 >= Len(a) THEN <<>>
    ELSE DivSmall(SubSeq(a, n \div 15 + 1, Len(a)), 2^(n % 15)).q

\* a is a multiple of 2^n
MultipleOfPower(a, n) == ShiftLeft(ShiftRight(a, n), n) = a

\* the number of binary digits of a
BitLen(a) ==
    IF a = <<>> THEN 0
    ELSE 15 * (Len(a) - 1) + (CHOOSE n \in 1..15 : 2^(n - 1) <= a[Len(a)] /\ a[Len(a)] < 2^n)

RECURSIVE QuotientDigit(_, _, _, _)
\* the largest q in lo..hi with d * q <= r, given d * lo <= r
QuotientDigit(r, d, lo, hi) ==
    IF lo = hi THEN lo
    ELSE LET mid == (lo + hi + 1) \div 2
         IN  IF LimbsLess(r, MulSmall(d, mid))
             THEN QuotientDigit(r, d, lo, mid - 1)
             ELSE QuotientDigit(r, d, mid, hi)

RECURSIVE DivModFrom(_, _, _)
\* quotient and remainder of the digits i.. of n by d (long division)
DivModFrom(n, d, i) ==
    IF Len(n) - i + 1 < Len(d) THEN [q |-> <<>>, r |-> Trim(SubSeq(n, i, Len(n)))]
    ELSE LET h == DivModFrom(n, d, i + 1)
             r == Trim(<<n[i]>> \o h.r)
             q == QuotientDigit(r, d, 0, Base - 1)
         IN  [q |-> Trim(<<q>> \o h.q), r |-> LimbsSub(r, MulSmall(d, q))]

\* quotient and remainder of n by d # 0
LimbsDivMod(n, d) == DivModFrom(n, d, 1)

\* an integer: a sign and a magnitude; 0 has no sign
Signed(neg, mag) == [neg |-> neg /\ mag # <<>>, mag |-> mag]

Negated(a) == Signed(~a.neg, a.mag)

SignedAdd(a, b) ==
    IF a.neg = b.neg THEN Signed(a.neg, LimbsAdd(a.mag, b.mag))
    ELSE IF LimbsLess(a.mag, b.mag) THEN Signed(b.neg, LimbsSub(b.mag, a.mag))
    ELSE Signed(a.neg, LimbsSub(a.mag, b.mag))

SignedLess(a, b) ==
    IF a.neg # b.neg THEN a.neg
    ELSE IF a.neg THEN LimbsLess(b.mag, a.mag) ELSE LimbsLess(a.mag, b.mag)

\* math.MaxInt64 and math.MinInt64, the range of int64 and of time.Duration
MaxInt64 == Signed(FALSE, LimbsSub(ShiftLeft(<<1>>, 63), <<1>>))
MinInt64 == Signed(TRUE, ShiftLeft(<<1>>, 63))

\* the int64 that the integer a wraps to (two's complement, 64 bits)
Wrap64(a) ==
    LET low == LimbsSub(a.mag, ShiftLeft(ShiftRight(a.mag, 64), 64))
        pos == IF a.neg /\ low # <<>> THEN LimbsSub(ShiftLeft(<<1>>, 64), low) ELSE low
    IN  IF BitLen(pos) = 64
        THEN Signed(TRUE, LimbsSub(ShiftLeft(<<1>>, 64), pos))
        ELSE Signed(FALSE, pos)

\* t.Sub(u) of package time: the difference, or the largest or smallest
\* Duration when the difference does not fit
Sub(t, u) ==
    LET d == SignedAdd(t, Negated(u))
    IN  IF SignedLess(MaxInt64, d) THEN MaxInt64
        ELSE IF SignedLess(d, MinInt64) THEN MinInt64 ELSE d

\* t.Add(d) of package time
Add(t, d) == SignedAdd(t, d)

\* a / 2^n rounded to the nearest integer, a tie to the even one
RoundShift(a, n) ==
    IF n = 0 THEN a
    ELSE LET q == ShiftRight(a, n)
             rest == LimbsSub(a, ShiftLeft(q, n))
             half == ShiftLeft(<<1>>, n - 1)
             up == \/ LimbsLess(half, rest)
                   \/ rest = half /\ q # <<>> /\ q[1] % 2 = 1
         IN  IF up THEN LimbsAdd(q, <<1>>) ELSE q

\* a float64: the value is mant * 2^exp with mant of at most 53 binary
\* digits (2^53 itself included); the exponent range of float64 is not
\* reached by the numbers of reporter.go
Float(neg, mant, exp) == [neg |-> neg /\ mant # <<>>, mant |-> mant, exp |-> exp]

\* float64(d) for an int64 d: rounded to 53 binary digits
Float64(d) ==
    LET n == BitLen(d.mag)
    IN  IF n <= 53 THEN Float(d.neg, d.mag, 0)
        ELSE Float(d.neg, RoundShift(d.mag, n - 53), n - 53)

\* x / y in float64, y # 0: the quotient rounded to 53 binary digits
FloatDiv(x, y) ==
    IF x.mant = <<>> THEN Float(FALSE, <<>>, 0)
    ELSE LET t == IF 55 + BitLen(y.mant) > BitLen(x.mant)
                  THEN 55 + BitLen(y.mant) - BitLen(x.mant) ELSE 0
             d == LimbsDivMod(ShiftLeft(x.mant, t), y.mant)
             \* the remainder's being non-zero is kept as one more digit
             q == LimbsAdd(ShiftLeft(d.q, 1), IF d.r = <<>> THEN <<>> ELSE <<1>>)
             n == BitLen(q)
         IN  Float(x.neg # y.neg, RoundShift(q, n - 53), x.exp - y.exp + n - 53 - 1 - t)

\* math.Ceil(x)
Ceil(x) ==
    IF x.exp >= 0 THEN x
    ELSE LET floor == ShiftRight(x.mant, -x.exp)
         IN  IF x.neg \/ MultipleOfPower(x.mant, -x.exp)
             THEN Float(x.neg, floor, 0)
             ELSE Float(FALSE, LimbsAdd(floor, <<1>>), 0)

\* time.Duration(x) for a float64 x without fraction, within int64
Duration(x) == Signed(x.neg, ShiftLeft(x.mant, x.exp))

\* a * b in int64: the product wraps
Mul64(a, b) == Wrap64(Signed(a.neg # b.neg, LimbsMul(a.mag, b.mag)))

\* func nextReport(interval time.Duration, createdAt, now time.Time) time.Time
nextReport(interval, createdAt, now) ==
    Add(createdAt,
        Mul64(Duration(Ceil(FloatDiv(Float64(Sub(now, createdAt)), Float64(interval)))),
              interval))

\* the units of package time, in nanoseconds
Second == LimbsMul(Limbs(1000), Limbs(1000000))
Minute == MulSmall(Second, 60)
Hour == MulSmall(Minute, 60)

\* var reportCheckInterval = time.Minute; reportInterval = 1 * time.Hour
reportCheckInterval == Signed(FALSE, Minute)
reportInterval == Signed(FALSE, Hour)

\* backoff.Config{MaxRetries: 5}
MaxRetries == 5

\* an instant is its distance in nanoseconds from the zero time.Time, January
\* 1 of year 1, which is the instant t.IsZero() tells
ZeroTime == Signed(FALSE, <<>>)

IsZero(t) == t = ZeroTime

\* the instant the model's clock starts at: day 738000 of the calendar
StartTime == Signed(FALSE, LimbsMul(Limbs(738000), MulSmall(Hour, 24)))

(***************************************************************************)
(* State                                                                   *)
(***************************************************************************)
VARIABLES
    SSLTargets,     \* e.options.SSLTargets
    DefaultModule,  \* e.options.SSLConfig.DefaultModule
    Namespace,      \* opts.Namespace, as NewSSLExporter read it
    stub,           \* the deterministic prober: target index -> outcome
    probeSuccess,   \* e.probeSuccess: the gauge's value
    proberType,     \* e.proberType: the label values that have a child gauge (all set to 1)
    Registry,       \* e.options.Registry
    mutex,          \* e.Mutex: "" when free, else the caller holding it
    pc,             \* where each caller is: "idle", "lock", "loop"
    idx,            \* each caller's position in range e.options.SSLTargets
    trace,          \* each caller's current Collect: one record per target visited
    history,        \* the traces of the Collect calls that have returned
    scrapes,        \* number of Collect calls made
    remap,          \* one gathered metric m on its own: m as gathered, m.Label
                    \* now, and what the loop body at lines 233-259 made of it
    calc,           \* one call of nextReport on its own: arguments and result
    clock,          \* time.Now()
    ctx,            \* the context of the current Start: "none", "live", "cancelled"
    seedFile,       \* agent_seed.json: absent, corrupt or holding a seed
    agentSeed,      \* rep.agentSeed: nil or the seed
    lastReport,     \* rep.lastReport
    next,           \* the local next of Start
    rpc,            \* where the reporter is: "stopped", "select", "report"
    numRetries,     \* backoff.numRetries of the current reportUsage
    errs,           \* number of errors added to errs in the current reportUsage
    usage,          \* the current or last reportUsage: its sendReport results
                    \* in order, and what it returned
    sent,           \* intervals of the sendReport calls that returned nil, this Start
    recorded,       \* intervals line 120 stored in rep.lastReport, this Start
    first,          \* what line 103 computed, this Start
    runs,           \* number of Start calls made
    ret             \* what the last Start that returned returned

vars == <<SSLTargets, DefaultModule, Namespace, stub, probeSuccess, proberType,
          Registry, mutex, pc, idx, trace, history, scrapes, remap, calc,
          clock, ctx, seedFile, agentSeed, lastReport, next, rpc, numRetries, errs,
          usage, sent, recorded, first, runs, ret>>

reporter == <<clock, ctx, seedFile, agentSeed, lastReport, next, rpc, numRetries,
              errs, usage, sent, recorded, first, runs, ret>>

exporter == <<probeSuccess, proberType, Registry, mutex, pc, idx, trace, history, scrapes>>

config == <<SSLTargets, DefaultModule, Namespace, stub>>

(***************************************************************************)
(* Registry                                                                *)
(***************************************************************************)
\* prometheus.NewRegistry()
NewRegistry == [collectors |-> {}, registered |-> <<>>, broken |-> FALSE]

\* Registry.MustRegister(cs...)
MustRegister(reg, cs) == [reg EXCEPT !.collectors = @ \cup cs]

\* what probeFunc(ctx, logger, target.Target, module, registry) does to the
\* registry: it registers its own collectors; under "gatherfail" they are
\* inconsistent, so that Gather returns an error
ProbeRegisters(reg, addr, outcome) ==
    [reg EXCEPT !.registered = Registered(addr, outcome.scenario),
                !.broken = (outcome.scenario = "gatherfail")]

\* Gather lists the families by name, and a vector's children by label value
FamilyOrder ==
    << "ssl_cert_not_after", "ssl_exporter_probe_success", "ssl_exporter_prober",
       "ssl_ocsp_response_status", "ssl_probe_success", "ssl_prober", "ssl_tls_version_info",
       "ssl_unexpected_metric", "ssl_verified_cert_not_after",
       "ssl_verified_cert_not_before" >>

KindOrder == <<"ftp", "https", "tcp">>

\* the family of the Gauge e.probeSuccess, named as NewSSLExporter named it
ProbeSuccessFamily(ns, ps) ==
    << RawMetric(BuildFQName(ns, "", "probe_success"), <<>>, ps) >>

\* the family of the GaugeVec e.proberType: one metric per child
ProberTypeFamily(ns, pt) ==
    LET kinds == SelectSeq(KindOrder, LAMBDA k : k \in pt)
    IN  [i \in 1..Len(kinds) |->
            RawMetric(BuildFQName(ns, "", "prober"), <<Label("prober", kinds[i])>>, 1)]

RECURSIVE ByFamily(_, _)
ByFamily(all, i) ==
    IF i > Len(FamilyOrder) THEN <<>>
    ELSE SelectSeq(all, LAMBDA m : m.name = FamilyOrder[i]) \o ByFamily(all, i + 1)

\* Registry.Gather(): the metrics of every registered collector, as they are now
Gather(reg, ns, ps, pt) ==
    ByFamily((IF "probeSuccess" \in reg.collectors THEN ProbeSuccessFamily(ns, ps) ELSE <<>>)
             \o (IF "proberType" \in reg.collectors THEN ProberTypeFamily(ns, pt) ELSE <<>>)
             \o reg.registered, 1)

(***************************************************************************)
(* The steps of one loop iteration of Collect                              *)
(***************************************************************************)
\* lines 192-199: the guard under which "Module parameter must be set" is logged
ModuleParameterMissing(target, defaultModule) ==
    target.Module # "" /\ defaultModule = ""

\* line 201: the key Collect looks up in SSLConfig.Modules
ModuleKey(target, defaultModule) == target.Module

\* Resolve without the check of lines 207-211: a module whose prober kind has
\* no prober function is taken as resolved
Resolve_NoProberCheck(target, defaultModule) ==
    IF ModuleParameterMissing(target, defaultModule) THEN "Module parameter must be set"
    ELSE IF ModuleKey(target, defaultModule) \notin DOMAIN Modules THEN "Unknown module"
    ELSE ""

\* lines 201-211: the diagnostic that skips the target, or "" when it resolves
Resolve(target, defaultModule) ==
    IF ModuleParameterMissing(target, defaultModule) THEN "Module parameter must be set"
    ELSE IF ModuleKey(target, defaultModule) \notin DOMAIN Modules THEN "Unknown module"
    ELSE IF Modules[ModuleKey(target, defaultModule)].Prober \notin Probers
         THEN "Unknown prober"
    ELSE ""

\* line 215: e.proberType.WithLabelValues(module.Prober).Set(1)
WithLabelValuesSet(pt, kind) == pt \cup {kind}

\* lines 219-224 without the else branch: the gauge keeps its value when the
\* prober returns no error
ProbeSuccessValue_NoElse(err) == IF err THEN 0 ELSE probeSuccess

\* lines 219-224: e.probeSuccess.Set(0) on an error, Set(1) otherwise
ProbeSuccessValue(err) == IF err THEN 0 ELSE 1

\* lines 233-259: one gathered metric: the metrics sent on ch and the
\* diagnostics logged, for each outcome of sort.Slice
RemapMetric(m) ==
    IF m.name \notin DOMAIN descs
    THEN {[emitted |-> <<>>, log |-> <<"Unknown metric">>, Label |-> m.labels]}
    ELSE { LET labelValues == LabelValuesOf(sorted)
           IN  IF NewConstMetricOk(descs[m.name], labelValues)
               THEN [emitted |-> <<NewConstMetric(descs[m.name], m.value, labelValues)>>,
                     log |-> <<>>, Label |-> sorted]
               ELSE [emitted |-> <<>>, log |-> <<"inconsistent label cardinality">>,
                     Label |-> sorted]
           : sorted \in SortSlice(m.labels) }

RECURSIVE RemapFrom_Break(_, _)
\* the loop with "break" where line 238 has "continue": an unknown family ends it
RemapFrom_Break(raws, i) ==
    IF i > Len(raws) THEN {[emitted |-> <<>>, log |-> <<>>]}
    ELSE IF raws[i].name \notin DOMAIN descs
         THEN {[emitted |-> <<>>, log |-> <<"Unknown metric">>]}
         ELSE { [emitted |-> one.emitted \o rest.emitted, log |-> one.log \o rest.log] :
                one \in RemapMetric(raws[i]), rest \in RemapFrom_Break(raws, i + 1) }

RECURSIVE RemapFrom_Return(_, _)
\* the loop with "return" where line 256 has "continue": a metric that cannot
\* be built ends it
RemapFrom_Return(raws, i) ==
    IF i > Len(raws) THEN {[emitted |-> <<>>, log |-> <<>>]}
    ELSE UNION { IF one.log = <<"inconsistent label cardinality">>
                 THEN {[emitted |-> <<>>, log |-> one.log]}
                 ELSE { [emitted |-> one.emitted \o rest.emitted,
                         log |-> one.log \o rest.log] :
                        rest \in RemapFrom_Return(raws, i + 1) }
               : one \in RemapMetric(raws[i]) }

RECURSIVE RemapFrom(_, _)
\* lines 232-260 from the i-th gathered metric on
RemapFrom(raws, i) ==
    IF i > Len(raws) THEN {[emitted |-> <<>>, log |-> <<>>]}
    ELSE { [emitted |-> one.emitted \o rest.emitted, log |-> one.log \o rest.log] :
           one \in RemapMetric(raws[i]), rest \in RemapFrom(raws, i + 1) }

\* lines 232-260: the loop over the gathered families
Remap(raws) == RemapFrom(raws, 1)

\* one record of a caller's trace: what one loop iteration did
Visit(i, log, probe, emitted) ==
    [target |-> i, log |-> log, probe |-> probe, emitted |-> emitted]

(***************************************************************************)
(* Initial state and actions                                               *)
(***************************************************************************)
\* no call of nextReport on its own
NoCalc == [pc |-> "none", createdAt |-> ZeroTime, now |-> ZeroTime, r |-> ZeroTime]

\* agent_seed.json: not there, not decodable, or holding a seed created at t
NoFile == [state |-> "absent", CreatedAt |-> ZeroTime]
CorruptFile == [state |-> "corrupt", CreatedAt |-> ZeroTime]
SeedFile(t) == [state |-> "seed", CreatedAt |-> t]

\* *AgentSeed: nil, or a seed created at t
NilSeed == [nil |-> TRUE, CreatedAt |-> ZeroTime]
AgentSeed(t) == [nil |-> FALSE, CreatedAt |-> t]

\* no reportUsage has been entered
NoUsage == [sends |-> <<>>, result |-> "none"]

\* the Reporter as NewReporter returns it, Start not called, no seed file
NoReporter ==
    /\ clock = StartTime
    /\ ctx = "none"
    /\ seedFile = NoFile
    /\ agentSeed = NilSeed
    /\ lastReport = ZeroTime
    /\ next = ZeroTime
    /\ rpc = "stopped"
    /\ numRetries = 0
    /\ errs = 0
    /\ usage = NoUsage
    /\ sent = <<>>
    /\ recorded = <<>>
    /\ first = ZeroTime
    /\ runs = 0
    /\ ret = "none"

\* no metric is examined on its own
NoRemap == [pc |-> "none", m |-> RawMetric("", <<>>, 0), Label |-> <<>>,
            emitted |-> <<>>, log |-> <<>>]

\* what a prober that is never invoked is recorded to return
Unused == [err |-> TRUE, scenario |-> "none"]

Init ==
    /\ SSLTargets \in TargetLists
    /\ DefaultModule \in DefaultModules
    /\ Namespace \in Namespaces
    /\ stub \in [1..Len(SSLTargets) -> Outcomes]
    /\ \A i \in 1..Len(SSLTargets) :
          Resolve(SSLTargets[i], DefaultModule) # "" => stub[i] = Unused
    /\ probeSuccess = 0
    /\ proberType = {}
    /\ Registry = NewRegistry
    /\ mutex = ""
    /\ pc = [c \in Callers |-> "idle"]
    /\ idx = [c \in Callers |-> 0]
    /\ trace = [c \in Callers |-> <<>>]
    /\ history = <<>>
    /\ scrapes = 0
    /\ remap = NoRemap
    /\ calc = NoCalc
    /\ NoReporter

\* a scrape request: caller c calls e.Collect(ch)
Call(c) ==
    /\ pc[c] = "idle"
    /\ scrapes < MaxScrapes
    /\ pc' = [pc EXCEPT ![c] = "lock"]
    /\ scrapes' = scrapes + 1
    /\ UNCHANGED <<config, probeSuccess, proberType, Registry, mutex, idx, trace, history, remap, calc, reporter>>

\* a mutation of Lock: the body is entered without waiting for the lock
Lock_NoMutex(c) ==
    /\ pc[c] = "lock"
    /\ mutex' = c
    /\ pc' = [pc EXCEPT ![c] = "loop"]
    /\ idx' = [idx EXCEPT ![c] = 1]
    /\ trace' = [trace EXCEPT ![c] = <<>>]
    /\ UNCHANGED <<config, probeSuccess, proberType, Registry, history, scrapes, remap, calc, reporter>>

\* e.Lock()
Lock(c) ==
    /\ pc[c] = "lock"
    /\ mutex = ""
    /\ mutex' = c
    /\ pc' = [pc EXCEPT ![c] = "loop"]
    /\ idx' = [idx EXCEPT ![c] = 1]
    /\ trace' = [trace EXCEPT ![c] = <<>>]
    /\ UNCHANGED <<config, probeSuccess, proberType, Registry, history, scrapes, remap, calc, reporter>>

\* one iteration of "for _, target := range e.options.SSLTargets"
CollectTarget(c) ==
    /\ pc[c] = "loop"
    /\ idx[c] <= Len(SSLTargets)
    /\ LET i == idx[c]
           target == SSLTargets[i]
           diag == Resolve(target, DefaultModule)
       IN  IF diag # ""
           THEN \* logged, then "continue"
                /\ trace' = [trace EXCEPT ![c] = Append(@, Visit(i, <<diag>>, <<>>, <<>>))]
                /\ UNCHANGED <<probeSuccess, proberType, Registry>>
           ELSE LET module == Modules[ModuleKey(target, DefaultModule)]
                    outcome == stub[i]
                    reg == ProbeRegisters(
                               MustRegister(NewRegistry, {"probeSuccess", "proberType"}),
                               target.Target, outcome)
                    pt == WithLabelValuesSet(proberType, module.Prober)
                    ps == ProbeSuccessValue(outcome.err)
                    probe == <<[prober |-> module.Prober, target |-> target.Target,
                                module |-> module]>>
                    errlog == IF outcome.err THEN <<"probe error">> ELSE <<>>
                IN  /\ Registry' = reg
                    /\ proberType' = pt
                    /\ probeSuccess' = ps
                    /\ IF reg.broken
                       THEN trace' = [trace EXCEPT ![c] = Append(@,
                                Visit(i, errlog \o <<"gather error">>, probe, <<>>))]
                       ELSE LET metricFams == Gather(reg, Namespace, ps, pt)
                            IN  \E r \in Remap(metricFams) :
                                  trace' = [trace EXCEPT ![c] = Append(@,
                                     Visit(i, errlog \o r.log, probe, r.emitted))]
    /\ idx' = [idx EXCEPT ![c] = @ + 1]
    /\ UNCHANGED <<config, mutex, pc, history, scrapes, remap, calc, reporter>>

\* a mutation of Return: Collect returns without the deferred e.Unlock()
Return_NoUnlock(c) ==
    /\ pc[c] = "loop"
    /\ idx[c] > Len(SSLTargets)
    /\ pc' = [pc EXCEPT ![c] = "idle"]
    /\ idx' = [idx EXCEPT ![c] = 0]
    /\ history' = Append(history, trace[c])
    /\ trace' = [trace EXCEPT ![c] = <<>>]
    /\ UNCHANGED <<config, probeSuccess, proberType, Registry, mutex, scrapes, remap, calc, reporter>>

\* the loop is over: the deferred e.Unlock() runs and Collect returns
Return(c) ==
    /\ pc[c] = "loop"
    /\ idx[c] > Len(SSLTargets)
    /\ mutex' = ""
    /\ pc' = [pc EXCEPT ![c] = "idle"]
    /\ idx' = [idx EXCEPT ![c] = 0]
    /\ history' = Append(history, trace[c])
    /\ trace' = [trace EXCEPT ![c] = <<>>]
    /\ UNCHANGED <<config, probeSuccess, proberType, Registry, scrapes, remap, calc, reporter>>

Next ==
    \E c \in Callers : Call(c) \/ Lock(c) \/ CollectTarget(c) \/ Return(c)

Spec == Init /\ [][Next]_vars

(***************************************************************************)
(* The loop body of lines 233-259 on one gathered metric, for every order  *)
(* in which a producer may list the metric's labels                        *)
(***************************************************************************)
\* label names a producer may put on a metric
LabelPool == {"name", "namespace", "ou", "prober", "secret", "serial_no", "version"}

\* family names of the metrics examined on their own
RemapNames == {"ssl_cert_not_after", "ssl_unexpected_metric"}

\* the sequences of n distinct names of LabelPool
Arrangements(n) ==
    { p \in [1..n -> LabelPool] : \A i, j \in 1..n : p[i] = p[j] => i = j }

\* a metric m of a gathered family, its labels in any order
InitRemap ==
    /\ SSLTargets = <<>>
    /\ DefaultModule = ""
    /\ Namespace = "ssl_exporter"
    /\ stub = <<>>
    /\ probeSuccess = 0
    /\ proberType = {}
    /\ Registry = NewRegistry
    /\ mutex = ""
    /\ pc = [c \in Callers |-> "idle"]
    /\ idx = [c \in Callers |-> 0]
    /\ trace = [c \in Callers |-> <<>>]
    /\ history = <<>>
    /\ scrapes = 0
    /\ calc = NoCalc
    /\ NoReporter
    /\ \E name \in RemapNames, n \in 0..MaxLabels :
         \E names \in Arrangements(n) :
            LET m == RawMetric(name, LabelsFor("a:443", names), 20)
            IN  remap = [pc |-> "gathered", m |-> m, Label |-> m.labels,
                         emitted |-> <<>>, log |-> <<>>]

\* lines 233-259 for the metric m
RemapStep ==
    /\ remap.pc = "gathered"
    /\ \E r \in RemapMetric(remap.m) :
          remap' = [remap EXCEPT !.pc = "done", !.Label = r.Label,
                                 !.emitted = r.emitted, !.log = r.log]
    /\ UNCHANGED <<config, exporter, calc, reporter>>

NextRemap == RemapStep

SpecRemap == InitRemap /\ [][NextRemap]_vars

(***************************************************************************)
(* The same loop body on a metric of each family of descs, its labels in   *)
(* every order a producer may list them                                    *)
(***************************************************************************)
\* label lists of at most MaxPermuted labels are put in every order
MaxPermuted == 8

\* an Exporter no Collect call has been made on, without targets
NoCollect ==
    /\ SSLTargets = <<>>
    /\ DefaultModule = ""
    /\ Namespace = "ssl_exporter"
    /\ stub = <<>>
    /\ probeSuccess = 0
    /\ proberType = {}
    /\ Registry = NewRegistry
    /\ mutex = ""
    /\ pc = [c \in Callers |-> "idle"]
    /\ idx = [c \in Callers |-> 0]
    /\ trace = [c \in Callers |-> <<>>]
    /\ history = <<>>
    /\ scrapes = 0

\* a metric of a family of descs under a label name labelOrder does not have
ForeignInputs ==
    { [name |-> "ssl_tls_version_info", names |-> <<"version", "zone">>],
      [name |-> "ssl_cert_not_after",
       names |-> <<"serial_no", "issuer_cn", "cn", "dnsnames", "ips", "emails", "zone">>] }

\* a metric of each family of descs under the family's own label names
AlignInputs ==
    { [name |-> n, names |-> descs[n].variableLabels] : n \in DOMAIN descs }
        \cup ForeignInputs

\* the names of CertLabels
CertLabelNames == {CertLabels[k] : k \in 1..Len(CertLabels)}

InitAlign ==
    /\ NoCollect
    /\ calc = NoCalc
    /\ NoReporter
    /\ \E inp \in AlignInputs :
          LET m == RawMetric(inp.name, LabelsFor("a:443", inp.names), 20)
          IN  remap = [pc |-> "gathered", m |-> m, Label |-> m.labels,
                       emitted |-> <<>>, log |-> <<>>]

\* the producer lists two neighbouring labels of the metric the other way
\* round; in a longer list the certificate labels keep their relative order
Reorder ==
    /\ remap.pc = "gathered"
    /\ \E i \in 1..(Len(remap.m.labels) - 1) :
          /\ \/ Len(remap.m.labels) <= MaxPermuted
             \/ remap.m.labels[i].name \notin CertLabelNames
             \/ remap.m.labels[i + 1].name \notin CertLabelNames
          /\ LET labels == SwapAt(remap.m.labels, i, i + 1)
             IN  remap' = [remap EXCEPT !.m.labels = labels, !.Label = labels]
    /\ UNCHANGED <<config, exporter, calc, reporter>>

NextAlign == Reorder \/ RemapStep

SpecAlign == InitAlign /\ [][NextAlign]_vars

(***************************************************************************)
(* Scheduling.  A goroutine inside Collect keeps running: the prober       *)
(* returns, the consumer receives from ch, so the next loop iteration and  *)
(* the return are taken (weak fairness).  sync.Mutex hands the lock to a   *)
(* waiter that has been starved (starvation mode), so a call that finds    *)
(* the lock free again and again gets it (strong fairness).  Nothing       *)
(* obliges anybody to call Collect.                                        *)
(***************************************************************************)
\* a step of CollectTarget(c), told by what it does to idx alone: the two are
\* enabled in the same states, and a step of Next is one exactly when it is
\* the other
TargetStep(c) ==
    /\ pc[c] = "loop"
    /\ idx[c] <= Len(SSLTargets)
    /\ idx' = [idx EXCEPT ![c] = @ + 1]

FairSpec ==
    /\ Spec
    /\ \A c \in Callers :
          WF_idx(TargetStep(c)) /\ WF_vars(Return(c)) /\ SF_vars(Lock(c))

(***************************************************************************)
(* nextReport on its own (lines 157-160), for a seed created at createdAt  *)
(* and a clock reading now                                                 *)
(***************************************************************************)
\* the ages now - createdAt tried, in hours and nanoseconds past the hour:
\* none, hours and days, 2502 hours (the first beyond 2^53 ns, 104 days),
\* half a year, ten years
AgeHours == {0, 1, 2, 24, 2501, 2502, 4096, 87600}
AgeNanos == {<<>>, <<1>>, <<2>>, MulSmall(Minute, 30), LimbsSub(Hour, <<1>>)}

\* k hours and n nanoseconds
Age(k, n) == Signed(FALSE, LimbsAdd(LimbsMul(Limbs(k), Hour), n))

\* the seed is older or younger than the clock by one of the ages, or it was
\* decoded from a file that gives no creation time (CreatedAt is the zero Time)
CalcInputs ==
    { [createdAt |-> StartTime, now |-> Add(StartTime, Age(k, n))] :
         k \in AgeHours, n \in AgeNanos }
    \cup { [createdAt |-> StartTime, now |-> Add(StartTime, Negated(Age(k, n)))] :
            k \in AgeHours, n \in AgeNanos }
    \cup { [createdAt |-> ZeroTime, now |-> Add(StartTime, Age(0, n))] : n \in AgeNanos }

InitCalc ==
    /\ NoCollect
    /\ remap = NoRemap
    /\ NoReporter
    /\ \E inp \in CalcInputs :
          calc = [pc |-> "call", createdAt |-> inp.createdAt, now |-> inp.now,
                  r |-> ZeroTime]

\* r := nextReport(reportInterval, createdAt, now), as on line 103
CalcStep ==
    /\ calc.pc = "call"
    /\ calc' = [calc EXCEPT !.pc = "done",
                            !.r = nextReport(reportInterval, calc.createdAt, calc.now)]
    /\ UNCHANGED <<config, exporter, remap, reporter>>

NextCalc == CalcStep

SpecCalc == InitCalc /\ [][NextCalc]_vars

(***************************************************************************)
(* Reporter.Start (lines 90-126) and reportUsage (lines 129-147)           *)
(***************************************************************************)
\* the clock is followed for MaxTicks periods of the ticker
MaxTicks == 64

\* Start is called at most MaxStarts times on the Reporter
MaxStarts == 2

\* m minutes, m of either sign
Minutes(m) == Signed(m < 0, MulSmall(Minute, IF m < 0 THEN -m ELSE m))

Horizon == Add(StartTime, Minutes(MaxTicks))

\* what agent_seed.json may hold when the model starts: nothing, bytes that
\* do not decode, or a seed created half an hour ago, more than two hours
\* ago, or (a clock that was set back) in half an hour
SeedFiles ==
    {NoFile, CorruptFile}
        \cup { SeedFile(Add(StartTime, Minutes(-m))) : m \in {30, 130, -30} }

InitReporter ==
    /\ NoCollect
    /\ remap = NoRemap
    /\ calc = NoCalc
    /\ clock = StartTime
    /\ ctx = "none"
    /\ seedFile \in SeedFiles
    /\ agentSeed = NilSeed
    /\ lastReport = ZeroTime
    /\ next = ZeroTime
    /\ rpc = "stopped"
    /\ numRetries = 0
    /\ errs = 0
    /\ usage = NoUsage
    /\ sent = <<>>
    /\ recorded = <<>>
    /\ first = ZeroTime
    /\ runs = 0
    /\ ret = "none"

\* rep.init (lines 48-60): the seed read from the file, or a new seed when
\* there is no file; ok tells whether the file could be decoded or written
InitSeed(ok) ==
    IF seedFile.state = "absent"
    THEN [agentSeed |-> AgentSeed(clock),
          seedFile |-> IF ok THEN SeedFile(clock) ELSE NoFile,
          err |-> ~ok]
    ELSE IF seedFile.state = "corrupt"
    THEN [agentSeed |-> NilSeed, seedFile |-> seedFile, err |-> TRUE]
    ELSE [agentSeed |-> AgentSeed(seedFile.CreatedAt), seedFile |-> seedFile,
          err |-> FALSE]

\* Start up to its loop (lines 90-107), with a context that is not cancelled
Start ==
    /\ rpc = "stopped"
    /\ runs < MaxStarts
    /\ runs' = runs + 1
    /\ ctx' = "live"
    /\ sent' = <<>>
    /\ recorded' = <<>>
    /\ usage' = NoUsage
    /\ numRetries' = 0
    /\ errs' = 0
    /\ \E ok \in BOOLEAN :
          LET seed == InitSeed(ok)
          IN  /\ agentSeed' = seed.agentSeed
              /\ seedFile' = seed.seedFile
              /\ IF seed.err
                 THEN /\ ret' = "init error"
                      /\ UNCHANGED <<rpc, next, first, lastReport>>
                 ELSE LET n == nextReport(reportInterval, seed.agentSeed.CreatedAt, clock)
                      IN  /\ next' = n
                          /\ first' = n
                          /\ lastReport' = IF IsZero(lastReport)
                                           THEN Add(n, Negated(reportInterval))
                                           ELSE lastReport
                          /\ rpc' = "select"
                          /\ ret' = "none"
    /\ UNCHANGED <<config, exporter, remap, calc, clock>>

\* case <-ticker.C (lines 110-115): a period of the ticker has passed; the
\* tick is let go by, or reportUsage is entered
Tick ==
    /\ rpc = "select"
    /\ SignedLess(clock, Horizon)
    /\ LET now == Add(clock, reportCheckInterval)
       IN  /\ clock' = now
           /\ IF next # now /\ SignedLess(Sub(now, lastReport), reportInterval)
              THEN /\ usage' = NoUsage
                   /\ UNCHANGED <<rpc, numRetries, errs>>
              ELSE /\ rpc' = "report"
                   /\ numRetries' = 0
                   /\ errs' = 0
                   /\ usage' = [sends |-> <<>>, result |-> "running"]
    /\ UNCHANGED <<config, exporter, remap, calc, ctx, seedFile, agentSeed, lastReport,
                   next, sent, recorded, first, runs, ret>>

\* a mutation of Ongoing: a backoff that does not look at its context
Ongoing_NoContext == numRetries < MaxRetries

\* a mutation of Ongoing: a backoff without a limit of retries
Ongoing_NoLimit == ctx = "live"

\* backoff.Ongoing(), with MaxRetries set
Ongoing == ctx = "live" /\ numRetries < MaxRetries

\* a mutation of SendReport: line 121 is left out, next stays after a success
SendReport_NoAdvance ==
    /\ rpc = "report"
    /\ Ongoing
    /\ \E ok \in BOOLEAN :
          IF ok
          THEN /\ usage' = [sends |-> Append(usage.sends, "ok"), result |-> "nil"]
               /\ sent' = Append(sent, next)
               /\ recorded' = Append(recorded, next)
               /\ lastReport' = next
               /\ next' = next
               /\ rpc' = "select"
               /\ numRetries' = 0
               /\ errs' = 0
          ELSE /\ usage' = [usage EXCEPT !.sends = Append(@, "err")]
               /\ errs' = errs + 1
               /\ numRetries' = numRetries + 1
               /\ UNCHANGED <<sent, recorded, lastReport, next, rpc>>
    /\ UNCHANGED <<config, exporter, remap, calc, clock, ctx, seedFile, agentSeed,
                   first, runs, ret>>

\* one iteration of the loop of reportUsage (lines 136-145): sendReport
\* returns nil, reportUsage returns nil and Start records the interval (lines
\* 120-121); or it returns an error, which is added to errs, and
\* backoff.Wait() counts a retry
SendReport ==
    /\ rpc = "report"
    /\ Ongoing
    /\ \E ok \in BOOLEAN :
          IF ok
          THEN /\ usage' = [sends |-> Append(usage.sends, "ok"), result |-> "nil"]
               /\ sent' = Append(sent, next)
               /\ recorded' = Append(recorded, next)
               /\ lastReport' = next
               /\ next' = Add(next, reportInterval)
               /\ rpc' = "select"
               /\ numRetries' = 0
               /\ errs' = 0
          ELSE /\ usage' = [usage EXCEPT !.sends = Append(@, "err")]
               /\ errs' = errs + 1
               /\ numRetries' = numRetries + 1
               /\ UNCHANGED <<sent, recorded, lastReport, next, rpc>>
    /\ UNCHANGED <<config, exporter, remap, calc, clock, ctx, seedFile, agentSeed,
                   first, runs, ret>>

\* the loop of reportUsage is over (line 146): errs.Err() is returned, nil
\* when no error was added; Start records the interval on nil (lines 120-121)
\* and goes on to the next tick on an error (lines 116-119)
GiveUp ==
    /\ rpc = "report"
    /\ ~Ongoing
    /\ IF errs = 0
       THEN /\ usage' = [usage EXCEPT !.result = "nil"]
            /\ recorded' = Append(recorded, next)
            /\ lastReport' = next
            /\ next' = Add(next, reportInterval)
       ELSE /\ usage' = [usage EXCEPT !.result = "error"]
            /\ UNCHANGED <<recorded, lastReport, next>>
    /\ rpc' = "select"
    /\ numRetries' = 0
    /\ errs' = 0
    /\ UNCHANGED <<config, exporter, remap, calc, clock, ctx, seedFile, agentSeed,
                   sent, first, runs, ret>>

\* the owner of the context cancels it
Cancel ==
    /\ rpc # "stopped"
    /\ ctx = "live"
    /\ ctx' = "cancelled"
    /\ UNCHANGED <<config, exporter, remap, calc, clock, seedFile, agentSeed, lastReport,
                   next, rpc, numRetries, errs, usage, sent, recorded, first, runs, ret>>

\* case <-ctx.Done(): return ctx.Err() (lines 122-123)
Done ==
    /\ rpc = "select"
    /\ ctx = "cancelled"
    /\ rpc' = "stopped"
    /\ ret' = "context canceled"
    \* the locals of the run are gone; rep.lastReport stays in the Reporter
    /\ next' = ZeroTime
    /\ first' = ZeroTime
    /\ usage' = NoUsage
    /\ sent' = <<>>
    /\ recorded' = <<>>
    /\ UNCHANGED <<config, exporter, remap, calc, clock, ctx, seedFile, agentSeed,
                   lastReport, numRetries, errs, runs>>

\* a period of the ticker passes between two calls of Start
Pass ==
    /\ rpc = "stopped"
    /\ runs >= 1
    /\ SignedLess(clock, Horizon)
    /\ clock' = Add(clock, reportCheckInterval)
    /\ UNCHANGED <<config, exporter, remap, calc, ctx, seedFile, agentSeed, lastReport,
                   next, rpc, numRetries, errs, usage, sent, recorded, first, runs, ret>>

NextReporter == Start \/ Tick \/ SendReport \/ GiveUp \/ Cancel \/ Done \/ Pass

SpecReporter == InitReporter /\ [][NextReporter]_vars

\* SpecReporter with the scheduling the code relies on: a sendReport call in
\* flight returns and the loop of reportUsage goes on (lines 136-146); the
\* select of line 109 picks among its ready cases at random, so the case
\* <-ctx.Done() is not passed over for ever once the context is cancelled
FairReporter ==
    /\ SpecReporter
    /\ WF_vars(SendReport) /\ WF_vars(GiveUp) /\ SF_vars(Done)

(***************************************************************************)
(* Vocabulary of the properties                                            *)
(***************************************************************************)
\* every trace of a Collect call, running or returned
AllTraces == {trace[c] : c \in Callers} \cup {history[k] : k \in 1..Len(history)}

\* every loop iteration any Collect call has made
AllVisits == UNION { {t[k] : k \in 1..Len(t)} : t \in AllTraces }

\* the positions of seq whose element satisfies P
Positions(seq, P(_)) == {k \in 1..Len(seq) : P(seq[k])}

IsProbeSuccess(e) == e.desc = descs["ssl_exporter_probe_success"]

IsProberIdentity(e) == e.desc = descs["ssl_exporter_prober"]

IsCertificate(e) == ~IsProbeSuccess(e) /\ ~IsProberIdentity(e)

\* the visit invoked a prober
Probed(v) == v.probe # <<>>

\* the visit's Gather returned an error
GatherFailed(v) == \E k \in 1..Len(v.log) : v.log[k] = "gather error"

\* the prober kind the configuration gives a module name, "" when it gives none
KindOf(moduleName) ==
    IF moduleName \in DOMAIN Modules THEN Modules[moduleName].Prober ELSE ""

\* the invocation probeFunc(ctx, logger, addr, Modules[moduleName], registry)
Invocation(addr, moduleName) ==
    [prober |-> Modules[moduleName].Prober, target |-> addr, module |-> Modules[moduleName]]

\* what Collect emits for target i on an Exporter that has processed nothing
\* else: the remapping of what its own registry holds after its own probe
OwnEmitted(i) ==
    LET t == SSLTargets[i]
        reg == ProbeRegisters(MustRegister(NewRegistry, {"probeSuccess", "proberType"}),
                              t.Target, stub[i])
    IN  { r.emitted : r \in Remap(Gather(reg, Namespace, IF stub[i].err THEN 0 ELSE 1,
                                         {KindOf(t.Module)})) }

(***************************************************************************)
(* C1 - C5                                                                 *)
(***************************************************************************)
\* C1: in every Collect call, the metrics emitted while processing a target
\* contain exactly one probe-success metric and exactly one prober-identity
\* metric, the latter labelled with the target's own prober kind, whatever the
\* target resolves to and whatever its prober does.
C1_OneSuccessOneIdentity ==
    \A v \in AllVisits :
        /\ Cardinality(Positions(v.emitted, IsProbeSuccess)) = 1
        /\ Cardinality(Positions(v.emitted, IsProberIdentity)) = 1
        /\ \A k \in Positions(v.emitted, IsProberIdentity) :
              v.emitted[k].labelValues = <<KindOf(SSLTargets[v.target].Module)>>

\* C2: sub-registry isolation: what is emitted while processing a target is
\* determined by the target's own module and its own prober invocation; no
\* metric set while processing another target is among it.
C2_SubRegistryIsolation ==
    \A v \in AllVisits :
        (Probed(v) /\ ~GatherFailed(v)) => v.emitted \in OwnEmitted(v.target)

\* the canonical metrics one Collect call sent on the channel
MetricSet(t) == UNION { {t[k].emitted[j] : j \in 1..Len(t[k].emitted)} : k \in 1..Len(t) }

\* C3: idempotence: with unchanged configuration and a deterministic prober
\* every Collect call on the same Exporter emits the same set of canonical
\* metrics.
C3_Idempotent ==
    \A a, b \in 1..Len(history) : MetricSet(history[a]) = MetricSet(history[b])

\* C4: a target with an empty module name is resolved to the default module
\* and that module's prober is invoked, when a default is configured and in
\* the module table; with no default configured it is skipped with the
\* missing-module diagnostic.
C4_DefaultModuleSubstituted ==
    \A v \in AllVisits :
        LET t == SSLTargets[v.target]
        IN  t.Module = "" =>
              /\ (DefaultModule \in DOMAIN Modules /\ KindOf(DefaultModule) \in Probers)
                    => v.probe = <<Invocation(t.Target, DefaultModule)>>
              /\ DefaultModule = ""
                    => (~Probed(v) /\ v.log = <<"Module parameter must be set">>)

\* C5: a target whose non-empty module name is in the module table, with a
\* prober kind in the prober table, has that prober invoked exactly once per
\* scrape with that module and the target's address, whether or not a default
\* module is configured; a named target is skipped only when its name or its
\* prober kind is unknown.
C5_NamedModuleResolved ==
    \A v \in AllVisits :
        LET t == SSLTargets[v.target]
        IN  t.Module # "" =>
              IF KindOf(t.Module) \in Probers
              THEN v.probe = <<Invocation(t.Target, t.Module)>>
              ELSE ~Probed(v)

(***************************************************************************)
(* C6 - C10                                                                *)
(***************************************************************************)
\* resolution fails as Collect decides it: a module name is set and no default
\* module is configured, the target's module name is no key of the module
\* table, or the module's prober kind has no prober function
FailsResolution(t) ==
    \/ (t.Module # "" /\ DefaultModule = "")
    \/ t.Module \notin DOMAIN Modules
    \/ Modules[t.Module].Prober \notin Probers

\* every Collect call visits the targets one by one in list order, and a call
\* that has returned has visited them all
VisitedInOrder ==
    /\ \A t \in AllTraces : \A k \in 1..Len(t) : t[k].target = k
    /\ \A c \in Callers : pc[c] = "loop" => Len(trace[c]) = idx[c] - 1
    /\ \A k \in 1..Len(history) : Len(history[k]) = Len(SSLTargets)

Healthy(v) == Probed(v) /\ ~stub[v.target].err /\ stub[v.target].scenario = "cert"

\* C7: partial-failure isolation: the metrics emitted for a healthy target are
\* the same whatever the other targets of the list do (fail resolution, fail
\* their probe, fail the gather, produce unknown or malformed metrics), and
\* every target of the list is visited exactly once, in list order.
C7_PartialFailureIsolation ==
    /\ VisitedInOrder
    /\ \A t \in AllTraces : \A k \in 1..Len(t) :
          Healthy(t[k]) => t[k].emitted \in OwnEmitted(k)

\* C8: for every target whose prober is invoked, the probe-success metric
\* emitted for it has value 1 if and only if that invocation returned no
\* error, and 0 otherwise, whatever the previous target or scrape left behind.
C8_ProbeSuccessValue ==
    \A v \in AllVisits :
        Probed(v) =>
           \A k \in Positions(v.emitted, IsProbeSuccess) :
              /\ v.emitted[k].value \in {0, 1}
              /\ v.emitted[k].value = 1 <=> ~stub[v.target].err

\* the value of the probe-success metric emitted on a visit, -1 when none is
EmittedSuccess(v) ==
    IF Positions(v.emitted, IsProbeSuccess) = {} THEN -1
    ELSE v.emitted[CHOOSE k \in Positions(v.emitted, IsProbeSuccess) : TRUE].value

\* two Collect calls have returned, each having emitted 1 for the first target
\* and then 0 for the second: the 0 follows a 1 and the next scrape's 1 a 0
C8_SuccessThenFailureTwice ==
    /\ Len(history) >= 2
    /\ \A k \in 1..2 :
          /\ Len(history[k]) >= 2
          /\ EmittedSuccess(history[k][1]) = 1
          /\ EmittedSuccess(history[k][2]) = 0

\* the raw metric can be built as the gauge of its family's descriptor
WellFormed(m) ==
    m.name \in DOMAIN descs /\ Len(m.labels) = Len(descs[m.name].variableLabels)

\* the canonical metric e is the raw metric m under m's descriptor
ImageOf(e, m) ==
    /\ e.desc = descs[m.name]
    /\ e.value = m.value
    /\ {e.labelValues[j] : j \in 1..Len(e.labelValues)} = {m.labels[j].value : j \in 1..Len(m.labels)}

\* the visit a caller inside Collect made last, when it gathered: the
\* registry and the two gauges are still as that Gather read them
LastGathered(c) ==
    /\ mutex = c
    /\ trace[c] # <<>>
    /\ Probed(trace[c][Len(trace[c])])
    /\ ~GatherFailed(trace[c][Len(trace[c])])

\* C9: closed metric surface: every metric sent on the channel is built from a
\* descriptor of descs; a gathered family whose name is no key of descs is
\* never emitted, and it removes no other metric of the target: the emitted
\* metrics are, one for one, the gathered metrics of the known families (those
\* that can be built as their descriptor's gauge).
C9_ClosedSurface ==
    /\ \A v \in AllVisits : \A k \in 1..Len(v.emitted) :
          \E n \in DOMAIN descs : v.emitted[k].desc = descs[n]
    /\ \A c \in Callers :
          LastGathered(c) =>
             LET v == trace[c][Len(trace[c])]
                 raws == Gather(Registry, Namespace, probeSuccess, proberType)
                 known == SelectSeq(raws, WellFormed)
                 unknown == SelectSeq(raws, LAMBDA m : m.name \notin DOMAIN descs)
             IN  /\ Len(v.emitted) = Len(known)
                 /\ \A j \in 1..Len(known) : ImageOf(v.emitted[j], known[j])
                 /\ Cardinality(Positions(v.log, LAMBDA l : l = "Unknown metric")) = Len(unknown)

\* a target whose prober registered ssl_unexpected_metric, which descs does
\* not know, with known families gathered before and after it: the probe
\* success, the prober identity and both certificate metrics are emitted
C9_UnknownAmongKnown ==
    \E c \in Callers :
        /\ LastGathered(c)
        /\ Namespace = "ssl_exporter"
        /\ LET v == trace[c][Len(trace[c])]
               raws == Gather(Registry, Namespace, probeSuccess, proberType)
           IN  /\ \E i, j, k \in 1..Len(raws) :
                     /\ i < j /\ j < k
                     /\ WellFormed(raws[i])
                     /\ raws[j].name = "ssl_unexpected_metric"
                     /\ raws[j].name \notin DOMAIN descs
                     /\ WellFormed(raws[k])
               /\ Len(v.emitted) >= 4
               /\ Positions(v.emitted, IsProbeSuccess) # {}
               /\ Positions(v.emitted, IsProberIdentity) # {}

\* the position of label l in the sequence s of labels with distinct names
PositionIn(s, l) == CHOOSE k \in 1..Len(s) : s[k] = l

\* out is s sorted ascending by precedence rank, labels of equal rank in the
\* order s lists them
StablySorted(s, out) ==
    /\ Len(out) = Len(s)
    /\ {out[k] : k \in 1..Len(out)} = {s[k] : k \in 1..Len(s)}
    /\ \A i, j \in 1..Len(out) : i < j => LabelRank(out[i].name) <= LabelRank(out[j].name)
    /\ \A i, j \in 1..Len(s) :
          (i < j /\ LabelRank(s[i].name) = LabelRank(s[j].name))
             => PositionIn(out, s[i]) < PositionIn(out, s[j])

\* C10: stable precedence ordering: for every raw metric of a known family and
\* every input order of its labels, the label values passed to the canonical
\* metric are the raw labels sorted ascending by precedence rank, labels of
\* equal rank keeping the order in which the raw metric listed them.
C10_StablePrecedenceOrder ==
    (remap.pc = "done" /\ remap.m.name \in DOMAIN descs) =>
        /\ StablySorted(remap.m.labels, remap.Label)
        /\ \A k \in 1..Len(remap.emitted) :
              remap.emitted[k].labelValues = LabelValuesOf(remap.Label)

(***************************************************************************)
(* C11  Order independence and name/value alignment.  Once the loop body   *)
(* has handled a metric of a family of descs that carries exactly the      *)
(* descriptor's label names, in whatever order, one canonical metric is    *)
(* emitted under the family's descriptor with the metric's value, and its  *)
(* i-th label value is the value the metric gave for the descriptor's i-th *)
(* label name: the result depends on the name/value pairs alone, not on    *)
(* the order they were listed in.                                          *)
(***************************************************************************)
\* the names the labels carry
NamesOf(labels) == {labels[k].name : k \in 1..Len(labels)}

\* the value the labels give for the name n
ValueFor(labels, n) ==
    labels[CHOOSE k \in 1..Len(labels) : labels[k].name = n].value

CarriesDescriptorNames(m) ==
    /\ m.name \in DOMAIN descs
    /\ Len(m.labels) = Len(descs[m.name].variableLabels)
    /\ NamesOf(m.labels) =
          {descs[m.name].variableLabels[k] : k \in 1..Len(m.labels)}

C11_AlignedInAnyOrder ==
    (remap.pc = "done" /\ CarriesDescriptorNames(remap.m)) =>
        /\ Len(remap.emitted) = 1
        /\ remap.emitted[1].desc = descs[remap.m.name]
        /\ remap.emitted[1].value = remap.m.value
        /\ Len(remap.emitted[1].labelValues) = Len(remap.m.labels)
        /\ \A i \in 1..Len(remap.m.labels) :
              remap.emitted[1].labelValues[i] =
                 ValueFor(remap.m.labels, descs[remap.m.name].variableLabels[i])

\* a Kubernetes metric of ten labels, listed in another order than the
\* descriptor's, has been emitted
C11_TenLabelsOutOfOrder ==
    /\ remap.pc = "done"
    /\ remap.m.name = "ssl_kubernetes_cert_not_after"
    /\ CarriesDescriptorNames(remap.m)
    /\ remap.m.labels[1].name = "serial_no"
    /\ remap.m.labels[10].name = "namespace"
    /\ Len(remap.emitted) = 1

(***************************************************************************)
(* C12  A label whose name the precedence table does not have sorts as the *)
(* lowest precedence: in the reordered label list of a handled metric it   *)
(* stands after every label whose name is in the table.                    *)
(***************************************************************************)
C12_AbsentLabelLast ==
    remap.pc = "done" =>
        \A i, j \in 1..Len(remap.Label) :
            (/\ remap.Label[i].name \notin DOMAIN labelOrder
             /\ remap.Label[j].name \in DOMAIN labelOrder) => j < i

(***************************************************************************)
(* C13  Mutual exclusion of scrapes.  At most one Collect call is inside   *)
(* the Collect body at any time, and it is the holder of the lock; a call  *)
(* that is not inside the body has visited no target of its own, so the    *)
(* per-target steps of two calls never interleave and a second call starts *)
(* on its first target only after the first call has returned.             *)
(***************************************************************************)
InBody == {c \in Callers : pc[c] = "loop"}

C13_MutualExclusion ==
    /\ Cardinality(InBody) <= 1
    /\ \A c \in Callers : pc[c] = "loop" <=> mutex = c
    /\ \A c \in Callers : pc[c] # "loop" => (idx[c] = 0 /\ trace[c] = <<>>)
    /\ Cardinality({c \in Callers : trace[c] # <<>>}) <= 1

\* one call is between two targets while another call waits for the lock
C13_SecondCallWaits ==
    \E c, d \in Callers :
        /\ c # d
        /\ pc[c] = "loop" /\ Len(trace[c]) >= 1 /\ idx[c] <= Len(SSLTargets)
        /\ pc[d] = "lock"

(***************************************************************************)
(* C14  A gathered metric of a family of descs that cannot be built as the *)
(* descriptor's gauge (its label count differs) is skipped alone: it is    *)
(* logged and not emitted, every well-formed metric gathered after it for  *)
(* the same target is still emitted, and Collect is not aborted: the call  *)
(* goes on to the next target and a returned call has visited them all.    *)
(***************************************************************************)
Malformed(m) ==
    m.name \in DOMAIN descs /\ Len(m.labels) # Len(descs[m.name].variableLabels)

CardinalityErrors(v) ==
    Cardinality(Positions(v.log, LAMBDA l : l = "inconsistent label cardinality"))

C14_MalformedSkippedAlone ==
    /\ \A c \in Callers :
          LastGathered(c) =>
             LET v == trace[c][Len(trace[c])]
                 raws == Gather(Registry, Namespace, probeSuccess, proberType)
             IN  /\ CardinalityErrors(v) =
                       Cardinality(Positions(raws, Malformed))
                 /\ \A i \in Positions(raws, Malformed) :
                       /\ \A k \in 1..Len(v.emitted) : ~ImageOf(v.emitted[k], raws[i])
                       /\ \A j \in Positions(raws, WellFormed) :
                             j > i => \E k \in 1..Len(v.emitted) :
                                         ImageOf(v.emitted[k], raws[j])
    /\ \A c \in Callers : pc[c] = "loop" => idx[c] = Len(trace[c]) + 1
    /\ \A h \in 1..Len(history) : Len(history[h]) = Len(SSLTargets)

\* the first target's metrics held a malformed one, the verified not-after
\* metric gathered after it was emitted, and the second target was probed
C14_MalformedThenMore ==
    \E c \in Callers :
        /\ LastGathered(c)
        /\ Len(trace[c]) = 2
        /\ CardinalityErrors(trace[c][1]) >= 1
        /\ \E k \in 1..Len(trace[c][1].emitted) :
              trace[c][1].emitted[k].desc = descs["ssl_verified_cert_not_after"]
        /\ Len(trace[c][2].emitted) >= 3

(***************************************************************************)
(* C15  For each certificate source (inline TLS, verified chain, file,     *)
(* Kubernetes secret, kubeconfig) the not-before and the not-after family  *)
(* are exposed with the same label set: when a prober registered a         *)
(* source's not-before and not-after metric under the same label names,    *)
(* Collect emits the canonical metric of both, the verified-chain pair     *)
(* with its chain-index label included.                                    *)
(***************************************************************************)
\* the not-before and the not-after family of each certificate source
ValidityPairs ==
    { <<"ssl_cert_not_before", "ssl_cert_not_after">>,
      <<"ssl_verified_cert_not_before", "ssl_verified_cert_not_after">>,
      <<"ssl_file_cert_not_before", "ssl_file_cert_not_after">>,
      <<"ssl_kubernetes_cert_not_before", "ssl_kubernetes_cert_not_after">>,
      <<"ssl_kubeconfig_cert_not_before", "ssl_kubeconfig_cert_not_after">> }

C15_BothValidityBoundsEmitted ==
    \A c \in Callers :
        LastGathered(c) =>
           LET v == trace[c][Len(trace[c])]
               raws == Gather(Registry, Namespace, probeSuccess, proberType)
           IN  \A i, j \in 1..Len(raws) :
                  (/\ <<raws[i].name, raws[j].name>> \in ValidityPairs
                   /\ NamesOf(raws[i].labels) = NamesOf(raws[j].labels)) =>
                      /\ \E k \in 1..Len(v.emitted) : ImageOf(v.emitted[k], raws[i])
                      /\ \E k \in 1..Len(v.emitted) : ImageOf(v.emitted[k], raws[j])

(***************************************************************************)
(* C16  Liveness of scrapes.  With probers that return and a consumer that *)
(* keeps receiving, every Collect call that has begun returns, and every   *)
(* call waiting for the lock gets it; a returned call has visited all the  *)
(* targets; whenever no call is inside the body the lock is free, whatever *)
(* skips the calls before took; and while a call is under way some step is *)
(* possible: no reachable state is a deadlock.                             *)
(***************************************************************************)
C16_ScrapesTerminate ==
    /\ \A c \in Callers : (pc[c] # "idle") ~> (pc[c] = "idle")
    /\ \A c \in Callers : (pc[c] = "lock") ~> (pc[c] = "loop")
    /\ [](\A h \in 1..Len(history) : Len(history[h]) = Len(SSLTargets))
    /\ [](InBody = {} => mutex = "")
    /\ []((\E c \in Callers : pc[c] # "idle") =>
             \E c \in Callers :
                ENABLED Lock(c) \/ ENABLED TargetStep(c) \/ ENABLED Return(c))

\* every call that was made has returned, one of them after skipping a
\* target whose module could not be resolved, and the lock is free
C16_AllReturnedAfterSkip ==
    /\ Len(history) = MaxScrapes
    /\ \A c \in Callers : pc[c] = "idle"
    /\ mutex = ""
    /\ \E h \in 1..Len(history) : \E k \in 1..Len(history[h]) : ~Probed(history[h][k])

(***************************************************************************)
(* C18  nextReport(interval, createdAt, now) returns the earliest instant  *)
(* createdAt + k*interval, k an integer, that is not before now: the       *)
(* result r is not before now, r - interval is before now, and r is        *)
(* createdAt when now is createdAt.                                        *)
(***************************************************************************)
C18_EarliestNotBefore ==
    calc.pc = "done" =>
        /\ ~SignedLess(calc.r, calc.now)
        /\ SignedLess(Add(calc.r, Negated(reportInterval)), calc.now)
        /\ calc.now = calc.createdAt => calc.r = calc.createdAt

(***************************************************************************)
(* C17  Reporter.Start sends a report for every interval.  Within one run  *)
(* of Start the intervals of the reports sent with success begin at what   *)
(* nextReport gave when the run started and each following one is one     *)
(* reportInterval after the one before (none skipped, none sent twice); a  *)
(* step in which sendReport or reportUsage fails leaves lastReport and     *)
(* next as they were, so the same interval is tried again; and next is one *)
(* reportInterval after lastReport at every loop iteration.                *)
(***************************************************************************)
\* the intervals sent so far are first, first + reportInterval, ...
SentInSequence ==
    \A k \in 1..Len(sent) :
        sent[k] = IF k = 1 THEN first ELSE Add(sent[k - 1], reportInterval)

\* a step that ends in a failure keeps lastReport and next
FailureKeepsInterval ==
    [][(rpc = "report" /\ sent' = sent /\ recorded' = recorded)
          => (lastReport' = lastReport /\ next' = next)]_vars

InLoop == rpc \in {"select", "report"}

C17_EveryIntervalOnce ==
    /\ []SentInSequence
    /\ FailureKeepsInterval
    /\ [](InLoop => Sub(next, lastReport) = reportInterval)

\* C17 as amended: the same, but next is one reportInterval after lastReport
\* in the first run of Start on the Reporter, and in a later run from the
\* first interval that run records on.
C17_EveryIntervalOnceFromFirstRecord ==
    /\ []SentInSequence
    /\ FailureKeepsInterval
    /\ []((InLoop /\ (runs = 1 \/ recorded # <<>>))
             => Sub(next, lastReport) = reportInterval)

\* two intervals have been sent in one run, the second two ticks late after
\* a tick on which reportUsage failed, and at the second attempt
C17_SecondIntervalAfterRetry ==
    /\ Len(sent) = 2
    /\ usage = [sends |-> <<"err", "ok">>, result |-> "nil"]
    /\ SignedLess(Add(sent[2], reportCheckInterval), clock)

(***************************************************************************)
(* C19  Reporter state advances only on a real success: an interval is     *)
(* stored in lastReport, and next moved forward, only when sendReport for  *)
(* that interval has returned without error; in particular no interval is  *)
(* recorded when the context is already cancelled as reportUsage is        *)
(* entered.  The intervals recorded in a run are exactly the intervals     *)
(* sent in it.                                                             *)
(***************************************************************************)
C19_RecordedOnlyWhenSent == recorded = sent

(***************************************************************************)
(* C20  One call of reportUsage makes at most 5 sendReport attempts: an    *)
(* attempt that succeeds is the last one and reportUsage returns nil right *)
(* after it; when all 5 attempts failed it returns an error; the retries   *)
(* counted are the failures so far and never exceed 5, so the loop ends.   *)
(***************************************************************************)
Failures(sends) == Cardinality(Positions(sends, LAMBDA r : r = "err"))

C20_AtMostFiveAttempts ==
    /\ Len(usage.sends) <= MaxRetries
    /\ \A k \in 1..Len(usage.sends) :
          usage.sends[k] = "ok" => (k = Len(usage.sends) /\ usage.result = "nil")
    /\ Failures(usage.sends) = MaxRetries => usage.result \in {"running", "error"}
    /\ rpc = "report" =>
          (usage.result = "running" /\ numRetries = Failures(usage.sends)
             /\ errs = numRetries)
    /\ (rpc # "report" /\ Failures(usage.sends) = Len(usage.sends)
          /\ usage.sends # <<>>) => usage.result = "error"

\* reportUsage has returned an error after five failed attempts
C20_FiveFailures ==
    /\ usage.result = "error"
    /\ usage.sends = <<"err", "err", "err", "err", "err">>

(***************************************************************************)
(* C21  Shutdown of the reporter.  Once the context passed to Start is     *)
(* cancelled no new sendReport attempt is started (an attempt starts with  *)
(* the test of backoff.Ongoing() that lets it in) and Start eventually     *)
(* returns the error of the context, given that a sendReport in flight     *)
(* returns; when the seed cannot be initialised Start returns that error   *)
(* with no report sent and without entering the tick loop.                 *)
(***************************************************************************)
NoAttemptAfterCancel ==
    [][ctx = "cancelled" =>
          (Len(usage'.sends) <= Len(usage.sends) /\ sent' \in {sent, <<>>})]_vars

InitErrorReturnsAtOnce ==
    [][(runs' # runs /\ ret' = "init error") =>
          /\ rpc' = "stopped"
          /\ sent' = <<>> /\ recorded' = <<>> /\ usage' = NoUsage
          /\ UNCHANGED <<lastReport, next, clock>>]_vars

C21_Shutdown ==
    /\ NoAttemptAfterCancel
    /\ (ctx = "cancelled") ~> (rpc = "stopped" /\ ret = "context canceled")
    /\ []((rpc = "stopped" /\ ctx = "cancelled") => ret = "context canceled")
    /\ InitErrorReturnsAtOnce
    /\ [](ret = "init error" => rpc = "stopped")

\* the context was cancelled while reportUsage was retrying: reportUsage has
\* given up before its fifth attempt and Start is about to return
C21_CancelledBetweenRetries ==
    /\ ctx = "cancelled"
    /\ rpc = "select"
    /\ usage.result = "error"
    /\ Len(usage.sends) \in 1..(MaxRetries - 1)

====
